---- MODULE Spec2Model ----
(***************************************************************************)
(* Session gate and route authorization of the eduPlatform browser client. *)
(*                                                                         *)
(* An optional JavaScript value (undefined / null versus a value) is a set *)
(* with at most one element: {} is the missing value, {v} the value v.     *)
(***************************************************************************)
EXTENDS Integers, Sequences, FiniteSets, TLC

VARIABLES
    appBuild,     \* which App component is built: "App" or "part_001"
    storage,      \* localStorage slot 'token': {} (no item) or {credential}
    user,         \* App state `user`: {} (null) or {Identity}
    loadingUser,  \* App state `loadingUser`
    location,     \* the router's current pathname, as its segments
    form,         \* the mounted Login: "idle", "failed" (error is set), or
                  \* the await its handleSubmit call is at (isLoading)
    orphans,      \* handleSubmit calls of unmounted Logins, per await
    nowMs,        \* Date.now(), in milliseconds
    lastCheck,    \* history: the most recent credential validation
    attempted,    \* history: the pathname ProtectedRoute last redirected from
    loggedOut,    \* history: handleLogout ran and no login has succeeded since
    page,         \* the page component whose data load has started, or "none"
    pagePc,       \* where that load is: "idle", an await, "done" or "failed"
    pageLoading,  \* the page's state `loading`
    pageError,    \* the page's state `error` is non-null
    pageToken,    \* what the load read from the slot when it started
    sent,         \* history: the requests the load has sent
    studentPage,  \* the state of a loaded StudentAssignmentPage and the
                  \* handleSubmitAssignment calls in flight
    gradingPage,  \* the state of a loaded SubmissionGradingPage and the
                  \* handleSaveGrade calls in flight
    createPage,   \* the state of CreateAssignmentPage and the handleSubmit
                  \* calls in flight
    assignmentPage  \* the state of an assignment page (StudentAssignmentPage
                    \* or TeacherAssignmentPage) and its loads in flight

pageVars == <<page, pagePc, pageLoading, pageError, pageToken, sent>>

handlerVars == <<studentPage, gradingPage, createPage, assignmentPage>>

vars == <<appBuild, storage, user, loadingUser, location, form, orphans,
          nowMs, lastCheck, attempted, loggedOut, pageVars, handlerVars>>

-----------------------------------------------------------------------------
(* Bounds of the model. *)

MaxExp == 1      \* largest `exp` claim, in seconds
MaxTicks == 3    \* the clock runs from 0 to MaxTicks half seconds
MaxLogins == 2   \* Login.handleSubmit calls that may be in flight together

-----------------------------------------------------------------------------
(* Credentials. *)

MsPerSecond == 1000

Role == {"STUDENT", "TEACHER", "ADMIN"}

Opt(S) == {{}} \cup {{x} : x \in S}

\* JwtPayload: every field optional.  sub may be the empty string and role
\* may be a string outside Role; exp may be 0 or negative.
JwtPayload ==
    [sub : Opt({"", "s@edu"}),
     email : Opt({"e@edu"}),
     role : Opt(Role \cup {"GUEST"}),
     exp : Opt((0 - 1) .. MaxExp),
     userId : Opt({7})]

NoPayload == [sub |-> {}, email |-> {}, role |-> {}, exp |-> {}, userId |-> {}]

\* A credential string, by what the two decoders of the client make of it:
\*   "empty"     the empty string
\*   "malformed" no decoder reads a JSON object out of its middle segment
\*   "b64"       the middle segment is base64 that atob and jwtDecode both read
\*   "b64url"    the middle segment uses the base64url characters - or _,
\*               which jwtDecode translates and atob rejects
Token ==
    {[enc |-> e, payload |-> NoPayload] : e \in {"empty", "malformed"}}
        \cup [enc : {"b64", "b64url"}, payload : JwtPayload]

\* JavaScript truthiness of an optional string / number.
TruthyStr(o) == o # {} /\ o # {""}
TruthyNum(o) == o # {} /\ o # {0}

\* `if (token)` on the result of localStorage.getItem('token').
TruthyToken(slot) == slot # {} /\ \A t \in slot : t.enc # "empty"

\* jwtDecode<JwtPayload>(token): {} when it throws, {payload} otherwise.
jwtDecode(t) == IF t.enc \in {"b64", "b64url"} THEN {t.payload} ELSE {}

\* JSON.parse(atob(token.split('.')[1])): {} when it throws.
atobParse(t) == IF t.enc = "b64" THEN {t.payload} ELSE {}

\* Mutant of isValidRole: any role string passes.
isValidRole_AnyString(role) == role # {}

isValidRole(role) == role # {} /\ role \subseteq Role

\* decoded.exp && decoded.exp < currentTime, currentTime = Date.now() / 1000
isExpired(decoded, now) ==
    TruthyNum(decoded.exp) /\ \E e \in decoded.exp : e * MsPerSecond < now

\* Mutant of userEmail: decoded.email || decoded.sub || null.
userEmail_PrefersEmail(decoded) ==
    IF TruthyStr(decoded.email) THEN decoded.email
    ELSE IF TruthyStr(decoded.sub) THEN decoded.sub
    ELSE {}

\* decoded.sub || decoded.email || null
userEmail(decoded) == IF TruthyStr(decoded.sub) THEN decoded.sub
                      ELSE IF TruthyStr(decoded.email) THEN decoded.email
                      ELSE {}

\* The User object App builds from a decoded payload.
userData(decoded) ==
    [email |-> CHOOSE e \in userEmail(decoded) : TRUE,
     role |-> CHOOSE r \in decoded.role : TRUE,
     userId |-> decoded.userId]

\* Mutant of resolveIdentity: the catch block does not remove the item.
resolveIdentity_CatchKeepsToken(slot, now) ==
    IF TruthyToken(slot)
    THEN LET token == CHOOSE t \in slot : TRUE
             dec == jwtDecode(token)
         IN IF dec = {}
            THEN [user |-> {}, storage |-> slot]
            ELSE LET decoded == CHOOSE d \in dec : TRUE
                 IN IF isExpired(decoded, now)
                    THEN [user |-> {}, storage |-> {}]
                    ELSE IF userEmail(decoded) # {} /\ isValidRole(decoded.role)
                         THEN [user |-> {userData(decoded)}, storage |-> slot]
                         ELSE [user |-> {}, storage |-> {}]
    ELSE [user |-> {}, storage |-> slot]

\* Mutant of resolveIdentity: the invalid-payload branch keeps the item.
resolveIdentity_InvalidKeepsToken(slot, now) ==
    IF TruthyToken(slot)
    THEN LET token == CHOOSE t \in slot : TRUE
             dec == jwtDecode(token)
         IN IF dec = {}
            THEN [user |-> {}, storage |-> {}]
            ELSE LET decoded == CHOOSE d \in dec : TRUE
                 IN IF isExpired(decoded, now)
                    THEN [user |-> {}, storage |-> {}]
                    ELSE IF userEmail(decoded) # {} /\ isValidRole(decoded.role)
                         THEN [user |-> {userData(decoded)}, storage |-> slot]
                         ELSE [user |-> {}, storage |-> slot]
    ELSE [user |-> {}, storage |-> slot]

\* Mutant of resolveIdentity: the item is removed on success too.
resolveIdentity_ConsumesToken(slot, now) ==
    IF TruthyToken(slot)
    THEN LET token == CHOOSE t \in slot : TRUE
             dec == jwtDecode(token)
         IN IF dec = {}
            THEN [user |-> {}, storage |-> {}]
            ELSE LET decoded == CHOOSE d \in dec : TRUE
                 IN IF isExpired(decoded, now)
                    THEN [user |-> {}, storage |-> {}]
                    ELSE IF userEmail(decoded) # {} /\ isValidRole(decoded.role)
                         THEN [user |-> {userData(decoded)}, storage |-> {}]
                         ELSE [user |-> {}, storage |-> {}]
    ELSE [user |-> {}, storage |-> slot]

\* The body of App's token-check effect for the slot content `slot` at time
\* `now`: the Identity it sets and the slot content it leaves.
resolveIdentity(slot, now) ==
    IF TruthyToken(slot)
    THEN LET token == CHOOSE t \in slot : TRUE
             dec == jwtDecode(token)
         IN IF dec = {}
            THEN [user |-> {}, storage |-> {}]              \* catch
            ELSE LET decoded == CHOOSE d \in dec : TRUE
                 IN IF isExpired(decoded, now)
                    THEN [user |-> {}, storage |-> {}]
                    ELSE IF userEmail(decoded) # {} /\ isValidRole(decoded.role)
                         THEN [user |-> {userData(decoded)}, storage |-> slot]
                         ELSE [user |-> {}, storage |-> {}]
    ELSE [user |-> {}, storage |-> slot]

-----------------------------------------------------------------------------
(* Routing: the <Routes> tree of App and react-router's matching. *)

Builds == {"App", "part_001"}

LoginPath == <<"login">>
RootPath == <<>>
CoursePath == <<"course", "1">>
CreatePath == <<"course", "1", "create-assignment">>
AssignmentPath == <<"course", "1", "assignment", "2">>
SubmissionsPath == <<"course", "1", "assignment", "2", "submissions">>
SubmissionPath == <<"course", "1", "assignment", "2", "submission", "3">>
\* The `to` of the non-teacher redirects of part_001: the template is not
\* interpolated, the pathname holds the parameter names themselves.
LiteralAssignmentPath == <<"course", ":courseId", "assignment", ":assignmentId">>
LiteralSubmissionsPath == LiteralAssignmentPath \o <<"submissions">>
UnknownPath == <<"reports">>
LoginExtraPath == <<"login", "extra">>
\* A course path whose id is not a number.
InvalidCoursePath == <<"course", "abc">>
\* The paths of a second assignment of the course.
OtherAssignmentPath == <<"course", "1", "assignment", "4">>
OtherSubmissionsPath == OtherAssignmentPath \o <<"submissions">>
\* Pathnames the page specifications use besides Paths.
PagePaths == {InvalidCoursePath, OtherAssignmentPath, OtherSubmissionsPath}

Paths == {LoginPath, RootPath, CoursePath, CreatePath, AssignmentPath,
          SubmissionsPath, SubmissionPath, LiteralAssignmentPath,
          LiteralSubmissionsPath, UnknownPath, LoginExtraPath}

ParamNames == {":courseId", ":assignmentId", ":submissionId"}

\* The route branches in the order flattenRoutes produces them: the children
\* of a route before the route itself.
Branch(path, index, route) == [path |-> path, index |-> index, route |-> route]

Branches(build) ==
    << Branch(<<"login">>, FALSE, "login"),
       Branch(<<>>, TRUE, "index"),
       Branch(<<"course", ":courseId">>, FALSE, "course") >>
    \o (IF build = "part_001"
        THEN << Branch(<<"course", ":courseId", "create-assignment">>, FALSE,
                       "create-assignment") >>
        ELSE << >>)
    \o << Branch(<<"course", ":courseId", "assignment", ":assignmentId">>,
                 FALSE, "assignment"),
          Branch(<<"course", ":courseId", "assignment", ":assignmentId",
                   "submissions">>, FALSE, "submissions"),
          Branch(<<"course", ":courseId", "assignment", ":assignmentId",
                   "submission", ":submissionId">>, FALSE, "submission"),
          Branch(<<"*">>, FALSE, "content-not-found"),
          Branch(<<>>, FALSE, "layout"),
          Branch(<<"*">>, FALSE, "page-not-found") >>

RECURSIVE segmentScores(_)
segmentScores(segs) ==
    IF segs = <<>> THEN 0
    ELSE (IF Head(segs) = "*" THEN 0
          ELSE IF Head(segs) \in ParamNames THEN 3
          ELSE IF Head(segs) = "" THEN 1
          ELSE 10) + segmentScores(Tail(segs))

\* react-router computeScore(path, index) on path.split("/").
computeScore(path, index) ==
    LET segs == IF path = <<>> THEN <<"", "">> ELSE <<"">> \o path
    IN Len(segs)
       + (IF \E i \in 1 .. Len(segs) : segs[i] = "*" THEN 0 - 2 ELSE 0)
       + (IF index THEN 2 ELSE 0)
       + segmentScores(segs)

\* react-router matchPath(pattern, pathname) with end = true.
matchPath(pattern, pathname) ==
    IF pattern # <<>> /\ pattern[Len(pattern)] = "*"
    THEN /\ Len(pathname) >= Len(pattern) - 1
         /\ \A i \in 1 .. Len(pattern) - 1 :
                IF pattern[i] \in ParamNames THEN pathname[i] # ""
                ELSE pathname[i] = pattern[i]
    ELSE /\ Len(pathname) = Len(pattern)
         /\ \A i \in 1 .. Len(pattern) :
                IF pattern[i] \in ParamNames THEN pathname[i] # ""
                ELSE pathname[i] = pattern[i]

\* matchRoutes: the matching branch of highest score, the earliest among equals.
matchRoutes(build, pathname) ==
    LET bs == Branches(build)
        hits == {i \in 1 .. Len(bs) : matchPath(bs[i].path, pathname)}
        score(i) == computeScore(bs[i].path, bs[i].index)
        best == CHOOSE i \in hits :
                    \A j \in hits : score(j) < score(i)
                                    \/ (score(j) = score(i) /\ i <= j)
    IN bs[best].route

\* The route each pathname of the model is matched to, per build.
RouteOf ==
    [build \in Builds |->
        [p \in Paths \cup PagePaths |-> matchRoutes(build, p)]]

\* What a route element evaluates to: a view, or a <Navigate to=... replace />.
\* layout tells whether it is rendered inside Layout's <Outlet />.
Show(view, layout) == [view |-> view, to |-> <<>>, layout |-> layout]
NavigateTo(to, layout) == [view |-> "Navigate", to |-> to, layout |-> layout]

\* user?.role === 'TEACHER'
isTeacher(u) == \E x \in u : x.role = "TEACHER"

\* isNaN(Number(courseId)) for the course ids of Paths.
isNaNCourseId(courseId) == courseId \notin {"1", "2", "3"}

\* CreateAssignmentPage's guards before it renders its form.
CreateAssignmentPage(u, pathname) ==
    IF ~isTeacher(u) THEN NavigateTo(<<"course", pathname[2]>>, TRUE)
    ELSE IF isNaNCourseId(pathname[2]) THEN Show("InvalidCourseId", TRUE)
    ELSE Show("CreateAssignmentPage", TRUE)

\* Mutant of Outlet: the assignment route redirects to `submissions`
\* without the test of the role.
Outlet_AssignmentAlwaysRedirects(build, route, u, pathname) ==
    CASE route = "index" -> Show("Home", TRUE)
      [] route = "course" ->
            IF isTeacher(u) THEN Show("TeacherCoursePage", TRUE)
            ELSE Show("StudentCoursePage", TRUE)
      [] route = "create-assignment" -> CreateAssignmentPage(u, pathname)
      [] route = "assignment" -> NavigateTo(pathname \o <<"submissions">>, TRUE)
      [] route = "submissions" ->
            IF build = "App" \/ isTeacher(u)
            THEN Show("TeacherAssignmentPage", TRUE)
            ELSE NavigateTo(LiteralAssignmentPath, TRUE)
      [] route = "submission" ->
            IF build = "App" \/ isTeacher(u)
            THEN Show("SubmissionGradingPage", TRUE)
            ELSE NavigateTo(LiteralAssignmentPath, TRUE)
      [] route = "content-not-found" -> Show("ContentNotFound", TRUE)
      [] OTHER -> Show("EmptyOutlet", TRUE)

\* The element of a child route of '/', rendered in Layout's outlet.
Outlet(build, route, u, pathname) ==
    CASE route = "index" -> Show("Home", TRUE)
      [] route = "course" ->
            IF isTeacher(u) THEN Show("TeacherCoursePage", TRUE)
            ELSE Show("StudentCoursePage", TRUE)
      [] route = "create-assignment" -> CreateAssignmentPage(u, pathname)
      [] route = "assignment" ->
            IF isTeacher(u) THEN NavigateTo(pathname \o <<"submissions">>, TRUE)
            ELSE Show("StudentAssignmentPage", TRUE)
      [] route = "submissions" ->
            IF build = "App" \/ isTeacher(u)
            THEN Show("TeacherAssignmentPage", TRUE)
            ELSE NavigateTo(LiteralAssignmentPath, TRUE)
      [] route = "submission" ->
            IF build = "App" \/ isTeacher(u)
            THEN Show("SubmissionGradingPage", TRUE)
            ELSE NavigateTo(LiteralAssignmentPath, TRUE)
      [] route = "content-not-found" -> Show("ContentNotFound", TRUE)
      [] OTHER -> Show("EmptyOutlet", TRUE)

\* Mutant of ProtectedRoute: the `!user` redirect is missing.
ProtectedRoute_NoUserCheck(u, loading, children) ==
    IF loading THEN Show("LoadingIndicator", FALSE) ELSE children

\* ProtectedRoute around Layout and its outlet.
ProtectedRoute(u, loading, children) ==
    IF loading THEN Show("LoadingIndicator", FALSE)
    ELSE IF u = {} THEN NavigateTo(LoginPath, FALSE)
    ELSE children

\* Mutant of Element: /login renders Login whatever the session.
Element_LoginAlwaysShown(build, u, loading, pathname) ==
    LET route == RouteOf[build][pathname]
    IN CASE route = "login" -> Show("Login", FALSE)
         [] route = "page-not-found" -> Show("PageNotFound", FALSE)
         [] OTHER -> ProtectedRoute(u, loading, Outlet(build, route, u, pathname))

\* Mutant of Element: the index route is a sibling of '/', outside
\* ProtectedRoute.
Element_IndexUnprotected(build, u, loading, pathname) ==
    LET route == RouteOf[build][pathname]
    IN CASE route = "login" ->
                IF u # {} /\ ~loading THEN NavigateTo(RootPath, FALSE)
                ELSE Show("Login", FALSE)
         [] route = "page-not-found" -> Show("PageNotFound", FALSE)
         [] route = "index" -> Outlet(build, route, u, pathname)
         [] OTHER -> ProtectedRoute(u, loading, Outlet(build, route, u, pathname))

\* The element <Routes> renders for a pathname.
Element(build, u, loading, pathname) ==
    LET route == RouteOf[build][pathname]
    IN CASE route = "login" ->
                IF u # {} /\ ~loading THEN NavigateTo(RootPath, FALSE)
                ELSE Show("Login", FALSE)
         [] route = "page-not-found" -> Show("PageNotFound", FALSE)
         [] OTHER -> ProtectedRoute(u, loading, Outlet(build, route, u, pathname))

Rendered == Element(appBuild, user, loadingUser, location)
Redirecting == Rendered.view = "Navigate"

-----------------------------------------------------------------------------
(* Operations. *)

NoCheck == [by |-> "none", slot |-> {}, at |-> 0]

\* The credentials the session specification starts from and the login
\* endpoint answers with: one of each kind the two validations tell apart.
Payload(sub, email, role, exp) ==
    [sub |-> sub, email |-> email, role |-> role, exp |-> exp, userId |-> {}]

SessionTokens ==
    {[enc |-> "malformed", payload |-> NoPayload]}
    \cup {[enc |-> "b64", payload |-> Payload({"s@edu"}, {}, {r}, {})] :
             r \in Role \cup {"GUEST"}}
    \cup {[enc |-> "b64", payload |-> Payload({"s@edu"}, {}, {"STUDENT"}, {e})] :
             e \in 0 .. MaxExp}
    \cup {[enc |-> "b64", payload |-> Payload({}, {"e@edu"}, {"TEACHER"}, {})],
          [enc |-> "b64", payload |-> Payload({"s@edu"}, {}, {}, {})],
          [enc |-> "b64url", payload |-> Payload({"s@edu"}, {}, {"TEACHER"}, {})]}

\* The bodies a successful login response may carry, the empty one included.
ResponseBodies == SessionTokens \cup {[enc |-> "empty", payload |-> NoPayload]}

\* The awaits of Login.handleSubmit a call can be suspended at.
Awaits == {"fetch", "token", "errorText"}

NoCalls == [a \in Awaits |-> 0]

InFlight == orphans["fetch"] + orphans["token"] + orphans["errorText"]
            + (IF form \in Awaits THEN 1 ELSE 0)

\* No page has started a load: useState(true) for loading, null for error.
NoPage ==
    /\ page = "none"
    /\ pagePc = "idle"
    /\ pageLoading = TRUE
    /\ pageError = FALSE
    /\ pageToken = {}
    /\ sent = <<>>

\* StudentAssignmentPage as useState leaves it, nothing loaded yet.
NoStudentPage ==
    [assignment |-> {}, selectedFile |-> {}, isSubmitting |-> FALSE,
     submitError |-> "none", successMessage |-> "none", calls |-> <<>>]

\* SubmissionGradingPage as useState leaves it, nothing loaded yet.
NoGradingPage ==
    [submission |-> {}, grade |-> {}, saving |-> FALSE, error |-> "none",
     calls |-> <<>>]

\* CreateAssignmentPage as useState leaves it.  title stands for a
\* non-empty title; dueDate is "null", a "valid" Date or an "invalid" one;
\* outcome is history: how the last handleSubmit call that ended, ended.
NoCreatePage ==
    [title |-> FALSE, dueDate |-> "null", selectedFile |-> FALSE,
     loading |-> FALSE, uploading |-> FALSE, submissionError |-> "none",
     success |-> FALSE, navigating |-> FALSE, submits |-> 0,
     outcome |-> "none", calls |-> <<>>]

\* An assignment page as useState leaves it: `data` is the id of the
\* assignment whose details are in the state (assignment,
\* assignmentDetails), if any; started is history, the loads begun.
NoAssignmentPage ==
    [data |-> {}, loading |-> TRUE, error |-> FALSE, started |-> 0,
     loads |-> <<>>]

\* A page that is not mounted has no state.
Unmounted == "unmounted"

NoHandlers ==
    /\ studentPage = Unmounted
    /\ gradingPage = Unmounted
    /\ createPage = Unmounted
    /\ assignmentPage = Unmounted

Start(tokens) ==
    /\ appBuild \in Builds
    /\ storage \in Opt(tokens)
    /\ user = {}
    /\ loadingUser = TRUE
    /\ location \in Paths
    /\ form = "idle"
    /\ orphans = NoCalls
    /\ nowMs = 0
    /\ lastCheck = NoCheck
    /\ attempted = {}
    /\ loggedOut = FALSE
    /\ NoPage
    /\ NoHandlers

Init == Start(SessionTokens)

\* The Login component is unmounted as soon as the element rendered is not
\* the Login view: its state is lost, a call it has in flight runs on.
Settle(f, o, u, loading, pathname) ==
    IF Element(appBuild, u, loading, pathname).view = "Login"
    THEN [form |-> f, orphans |-> o]
    ELSE [form |-> "idle",
          orphans |-> IF f \in Awaits THEN [o EXCEPT ![f] = @ + 1] ELSE o]

\* Mutant of TokenCheck: setLoadingUser(false) only inside `if (token)`.
TokenCheck_LoadingOnlyWithToken ==
    /\ loadingUser
    /\ LET r == resolveIdentity(storage, nowMs)
       IN user' = r.user /\ storage' = r.storage
    /\ loadingUser' = ~TruthyToken(storage)
    /\ lastCheck' = [by |-> "startup", slot |-> storage, at |-> nowMs]
    /\ UNCHANGED <<handlerVars, pageVars, appBuild, location, form, orphans, nowMs, attempted,
                   loggedOut>>

\* App's useEffect(..., []): runs once after the first render.
TokenCheck ==
    /\ loadingUser
    /\ LET r == resolveIdentity(storage, nowMs)
       IN /\ user' = r.user
          /\ storage' = r.storage
    /\ loadingUser' = FALSE
    /\ lastCheck' = [by |-> "startup", slot |-> storage, at |-> nowMs]
    /\ UNCHANGED <<handlerVars, pageVars, appBuild, location, form, orphans, nowMs, attempted, loggedOut>>

\* Mutant of handleLogout: the stored credential is not removed.
handleLogout_KeepsToken ==
    /\ ~loadingUser /\ ~Redirecting
    /\ Rendered.layout
    /\ user' = {}
    /\ lastCheck' = NoCheck
    /\ attempted' = {}
    /\ loggedOut' = TRUE
    /\ UNCHANGED <<handlerVars, pageVars, appBuild, storage, loadingUser, location, form, orphans, nowMs>>

\* Mutant of handleLogout: it also sets loadingUser again.
handleLogout_ResetsLoading ==
    /\ ~loadingUser /\ ~Redirecting
    /\ Rendered.layout
    /\ storage' = {}
    /\ user' = {}
    /\ loadingUser' = TRUE
    /\ lastCheck' = NoCheck
    /\ attempted' = {}
    /\ loggedOut' = TRUE
    /\ UNCHANGED <<handlerVars, pageVars, appBuild, location, form, orphans, nowMs>>

\* App.handleLogout, the Logout button of Layout.
handleLogout ==
    /\ ~loadingUser /\ ~Redirecting
    /\ Rendered.layout
    /\ storage' = {}
    /\ user' = {}
    /\ lastCheck' = NoCheck
    /\ attempted' = {}
    /\ loggedOut' = TRUE
    /\ UNCHANGED <<handlerVars, pageVars, appBuild, loadingUser, location, form, orphans, nowMs>>

\* The effect of a rendered <Navigate to=... replace />.
Redirect ==
    /\ Redirecting
    /\ location' = Rendered.to
    /\ LET c == Settle(form, orphans, user, loadingUser, Rendered.to)
       IN form' = c.form /\ orphans' = c.orphans
    /\ attempted' = IF user = {} THEN {location} ELSE attempted
    /\ UNCHANGED <<handlerVars, pageVars, appBuild, storage, user, loadingUser, nowMs, lastCheck,
                   loggedOut>>

\* The user moves to another path inside the running app (a link, a button,
\* the history).
Goto(p) ==
    /\ ~loadingUser /\ ~Redirecting
    /\ p # location
    /\ location' = p
    /\ LET c == Settle(form, orphans, user, loadingUser, p)
       IN form' = c.form /\ orphans' = c.orphans
    /\ attempted' = {}
    /\ UNCHANGED <<handlerVars, pageVars, appBuild, storage, user, loadingUser, nowMs, lastCheck,
                   loggedOut>>

\* A full page reload: the App component is constructed again and the
\* handlers of the old page are gone.
Reload ==
    /\ ~loadingUser /\ ~Redirecting
    /\ user' = {}
    /\ loadingUser' = TRUE
    /\ form' = "idle"
    /\ orphans' = NoCalls
    /\ lastCheck' = NoCheck
    /\ attempted' = {}
    /\ UNCHANGED <<handlerVars, pageVars, appBuild, storage, location, nowMs, loggedOut>>

\* Mutant of Tick: a timer that ends the session once `exp` has passed.
Tick_ExpiresSession ==
    /\ nowMs < MaxTicks * (MsPerSecond \div 2)
    /\ nowMs' = nowMs + (MsPerSecond \div 2)
    /\ IF /\ user # {}
          /\ \E t \in storage : \E d \in jwtDecode(t) : isExpired(d, nowMs')
       THEN user' = {} /\ storage' = {}
       ELSE UNCHANGED <<user, storage>>
    /\ UNCHANGED <<handlerVars, pageVars, appBuild, loadingUser, location, form, orphans, lastCheck,
                   attempted, loggedOut>>

\* Time passes.
Tick ==
    /\ nowMs < MaxTicks * (MsPerSecond \div 2)
    /\ nowMs' = nowMs + (MsPerSecond \div 2)
    /\ UNCHANGED <<handlerVars, pageVars, appBuild, storage, user, loadingUser, location, form,
                   orphans, lastCheck, attempted, loggedOut>>

\* Login.handleSubmit up to its first await: the form is submitted.
LoginSubmit ==
    /\ ~loadingUser
    /\ form \notin Awaits                         \* disabled={isLoading}
    /\ InFlight < MaxLogins
    /\ Rendered.view = "Login"
    /\ form' = "fetch"
    /\ UNCHANGED <<handlerVars, pageVars, appBuild, storage, user, loadingUser, location, orphans,
                   nowMs, lastCheck, attempted, loggedOut>>

\* A call is suspended at `await`: the call of the mounted form, or one
\* whose Login component has been unmounted.
Suspended(mounted, await) ==
    IF mounted THEN form = await ELSE orphans[await] > 0

\* The call moves on to `next`: an await, or "idle" / "failed" when it
\* returns without / with setError.
Resume(mounted, await, next) ==
    IF mounted
    THEN [form |-> next, orphans |-> orphans]
    ELSE [form |-> form,
          orphans |-> [a \in Awaits |->
                          orphans[a] - (IF a = await THEN 1 ELSE 0)
                                     + (IF a = next THEN 1 ELSE 0)]]

\* Mutant of LoginCatch: the catch block does not remove the item.
LoginCatch_KeepsToken(mounted, await) ==
    /\ storage' = storage
    /\ LET c == Resume(mounted, await, "failed")
       IN form' = c.form /\ orphans' = c.orphans
    /\ UNCHANGED <<handlerVars, pageVars, appBuild, user, loadingUser, location, nowMs, attempted,
                   loggedOut>>

\* The catch and finally blocks of Login.handleSubmit.
LoginCatch(mounted, await) ==
    /\ storage' = {}
    /\ LET c == Resume(mounted, await, "failed")
       IN form' = c.form /\ orphans' = c.orphans
    /\ UNCHANGED <<handlerVars, pageVars, appBuild, user, loadingUser, location, nowMs, attempted,
                   loggedOut>>

\* fetch rejects: a network error.
LoginFetchRejects(mounted) ==
    /\ Suspended(mounted, "fetch")
    /\ ~Redirecting
    /\ LoginCatch(mounted, "fetch")
    /\ UNCHANGED lastCheck

\* fetch resolves, with response.ok or without; the body is read next.
LoginResponse(mounted, ok) ==
    /\ Suspended(mounted, "fetch")
    /\ ~Redirecting
    /\ LET c == Resume(mounted, "fetch", IF ok THEN "token" ELSE "errorText")
       IN form' = c.form /\ orphans' = c.orphans
    /\ UNCHANGED <<handlerVars, pageVars, appBuild, storage, user, loadingUser, location, nowMs,
                   lastCheck, attempted, loggedOut>>

\* !response.ok: the error text is read and thrown.
LoginRejected(mounted) ==
    /\ Suspended(mounted, "errorText")
    /\ ~Redirecting
    /\ LoginCatch(mounted, "errorText")
    /\ UNCHANGED lastCheck

\* response.ok: the body `token` is read and handled, lines 37-56.
LoginToken(mounted, token) ==
    /\ Suspended(mounted, "token")
    /\ ~Redirecting
    /\ IF token.enc = "empty"
       THEN LoginCatch(mounted, "token") /\ UNCHANGED lastCheck
       ELSE LET dec == atobParse(token)
            IN /\ lastCheck' = [by |-> "login", slot |-> {token}, at |-> nowMs]
               /\ IF \E payload \in dec :
                         TruthyStr(payload.sub) /\ TruthyStr(payload.role)
                  THEN LET payload == CHOOSE d \in dec : TRUE
                           identity == [email |-> CHOOSE e \in payload.sub : TRUE,
                                        role |-> CHOOSE r \in payload.role : TRUE,
                                        userId |-> payload.userId]
                           done == Resume(mounted, "token", "idle")
                           c == Settle(done.form, done.orphans, {identity},
                                       loadingUser, RootPath)
                       IN /\ storage' = {token}
                          /\ user' = {identity}              \* onLogin
                          /\ location' = RootPath            \* navigate('/')
                          /\ form' = c.form
                          /\ orphans' = c.orphans
                          /\ loggedOut' = FALSE
                          /\ UNCHANGED <<handlerVars, pageVars, appBuild, loadingUser, nowMs, attempted>>
                  ELSE LoginCatch(mounted, "token")

Next ==
    \/ TokenCheck
    \/ handleLogout
    \/ Redirect
    \/ \E p \in Paths : Goto(p)
    \/ Reload
    \/ Tick
    \/ LoginSubmit
    \/ \E mounted \in BOOLEAN : LoginFetchRejects(mounted)
    \/ \E mounted, ok \in BOOLEAN : LoginResponse(mounted, ok)
    \/ \E mounted \in BOOLEAN : LoginRejected(mounted)
    \/ \E mounted \in BOOLEAN, token \in ResponseBodies : LoginToken(mounted, token)

Spec == Init /\ [][Next]_vars

\* The same with the scheduling React gives: an effect that is pending (the
\* token check of the mounted App, the navigation of a rendered <Navigate>)
\* does run.
FairSpec == Spec /\ WF_vars(TokenCheck) /\ WF_vars(Redirect)

\* Startup resolution alone, from every credential of Token in the slot.
InitResolve == Start(Token)

NextResolve ==
    \/ TokenCheck
    \/ Redirect
    \/ Reload
    \/ Tick

SpecResolve == InitResolve /\ [][NextResolve]_vars

-----------------------------------------------------------------------------
(* The data load of each page component: the effect it runs when it is     *)
(* mounted.  A load is described by what its code does at four places:     *)
(*   idTest     the test of the route parameter before anything is read or  *)
(*              sent: "number" (missing or isNaN: setError,                *)
(*              setLoading(false), return), "present" (missing only; a     *)
(*              matched route always has it) or "none"                     *)
(*   noToken    when getItem('token') is falsy before the first request:   *)
(*              "return" (setError, setLoading(false), return), "throw"    *)
(*              (into its own catch block) or "send" (no test)             *)
(*   catchSetsError  its catch block sets a non-null error                 *)
(*   followUp   requests after the primary one: "none", "captured" (they   *)
(*              carry the token read at the start), "reread" (the slot is  *)
(*              read again and not tested) or "rereadTested"               *)
(*   followUpFails   a failed follow-up is "ignored" or sets the "error"   *)

Home_fetchCourses ==
    [view |-> "Home", idTest |-> "none", noToken |-> "throw", catchSetsError |-> TRUE,
     followUp |-> "captured", followUpFails |-> "ignored"]

CoursePage_fetchCourseData ==
    [view |-> "StudentCoursePage", idTest |-> "number", noToken |-> "return", catchSetsError |-> TRUE,
     followUp |-> "captured", followUpFails |-> "error"]

StudentCoursePage_fetchInitialData ==
    [view |-> "StudentCoursePage", idTest |-> "number", noToken |-> "return", catchSetsError |-> TRUE,
     followUp |-> "captured", followUpFails |-> "ignored"]

\* TeacherCoursePage as in Layout.tsx: both requests are the primary load.
TeacherCoursePage_fetchCourseData ==
    [view |-> "TeacherCoursePage", idTest |-> "number", noToken |-> "return", catchSetsError |-> TRUE,
     followUp |-> "none", followUpFails |-> "ignored"]

\* TeacherCoursePage as in part_002: modules are loaded after the course.
TeacherCoursePage_fetchInitialData ==
    [view |-> "TeacherCoursePage", idTest |-> "number", noToken |-> "return", catchSetsError |-> TRUE,
     followUp |-> "captured", followUpFails |-> "ignored"]

StudentAssignmentPage_loadAssignment ==
    [view |-> "StudentAssignmentPage", idTest |-> "present", noToken |-> "return",
     catchSetsError |-> TRUE, followUp |-> "none", followUpFails |-> "ignored"]

TeacherAssignmentPage_loadData ==
    [view |-> "TeacherAssignmentPage", idTest |-> "present", noToken |-> "throw",
     catchSetsError |-> TRUE, followUp |-> "rereadTested",
     followUpFails |-> "ignored"]

SubmissionGradingPage_fetchSubmissionAndStudent ==
    [view |-> "SubmissionGradingPage", idTest |-> "present", noToken |-> "return",
     catchSetsError |-> TRUE, followUp |-> "reread", followUpFails |-> "ignored"]

\* The SubmissionGradingPage of Login.tsx: no test of the token, and the
\* catch block calls setError(error) with the state `error`, which is null.
SubmissionGradingPage_fetchSubmission ==
    [view |-> "SubmissionGradingPage", idTest |-> "none", noToken |-> "send",
     catchSetsError |-> FALSE, followUp |-> "none", followUpFails |-> "ignored"]

PageLoads ==
    [Home |-> Home_fetchCourses,
     CoursePage |-> CoursePage_fetchCourseData,
     StudentCoursePage |-> StudentCoursePage_fetchInitialData,
     TeacherCoursePage_Layout |-> TeacherCoursePage_fetchCourseData,
     TeacherCoursePage_part_002 |-> TeacherCoursePage_fetchInitialData,
     StudentAssignmentPage |-> StudentAssignmentPage_loadAssignment,
     TeacherAssignmentPage |-> TeacherAssignmentPage_loadData,
     SubmissionGradingPage |-> SubmissionGradingPage_fetchSubmissionAndStudent,
     SubmissionGradingPage_Login |-> SubmissionGradingPage_fetchSubmission]

PageNames == DOMAIN PageLoads

\* A request with the header `Authorization: Bearer ${token}`: `bearer` is
\* the value of `token` ({} prints as "null"), `slot` the slot content when
\* the request is sent.
Request(kind, token) == [req |-> kind, bearer |-> token, slot |-> storage]

\* The catch and finally blocks of a load that fails at `pc`.
PageCatch(load, pc) ==
    /\ pageError' = load.catchSetsError
    /\ pageLoading' = FALSE
    /\ pagePc' = pc

\* The page is mounted and its effect runs up to the first await.
PageMount(p) ==
    /\ page = "none"
    /\ ~loadingUser
    /\ Rendered.view = PageLoads[p].view
    /\ page' = p
    /\ LET load == PageLoads[p]
       IN IF load.idTest = "number" /\ isNaNCourseId(location[2])
          THEN /\ pageToken' = {}
               /\ sent' = sent
               /\ pageError' = TRUE /\ pageLoading' = FALSE
               /\ pagePc' = "exit"
          ELSE /\ pageToken' = storage     \* localStorage.getItem('token')
               /\ IF TruthyToken(storage) \/ load.noToken = "send"
                  THEN /\ sent' = Append(sent, Request("primary", storage))
                       /\ pageError' = FALSE
                       /\ pageLoading' = TRUE
                       /\ pagePc' = "primary"
                  ELSE /\ sent' = sent
                       /\ IF load.noToken = "throw"
                          THEN PageCatch(load, "done")
                          ELSE pageError' = TRUE /\ pageLoading' = FALSE
                               /\ pagePc' = "done"
    /\ UNCHANGED <<appBuild, storage, user, loadingUser, location, form,
                   orphans, nowMs, lastCheck, attempted, loggedOut,
                   handlerVars>>

\* The primary request fails: fetch rejects or the status is not ok.
PagePrimaryFails ==
    /\ pagePc = "primary"
    /\ PageCatch(PageLoads[page], "failed")
    /\ UNCHANGED <<page, pageToken, sent>>
    /\ UNCHANGED <<appBuild, storage, user, loadingUser, location, form,
                   orphans, nowMs, lastCheck, attempted, loggedOut,
                   handlerVars>>

\* The primary request succeeds; `more` says whether the data asks for
\* follow-up requests (courses to count for, a studentId to look up).
PagePrimarySucceeds(more) ==
    /\ pagePc = "primary"
    /\ LET load == PageLoads[page]
           token == IF load.followUp = "captured" THEN pageToken ELSE storage
       IN IF /\ more
             /\ load.followUp # "none"
             /\ load.followUp = "rereadTested" => TruthyToken(storage)
          THEN /\ sent' = Append(sent, Request("followUp", token))
               /\ pagePc' = "followUp"
               /\ UNCHANGED <<pageLoading, pageError>>
          ELSE /\ sent' = sent
               /\ pagePc' = "done"
               /\ pageLoading' = FALSE
               /\ UNCHANGED pageError
    /\ UNCHANGED <<page, pageToken>>
    /\ UNCHANGED <<appBuild, storage, user, loadingUser, location, form,
                   orphans, nowMs, lastCheck, attempted, loggedOut,
                   handlerVars>>

\* Mutant of PageFollowUpEnds: a failed follow-up sets the error of the page.
PageFollowUpEnds_FailureSetsError(ok) ==
    /\ pagePc = "followUp"
    /\ pageError' = ~ok
    /\ pageLoading' = FALSE
    /\ pagePc' = "done"
    /\ UNCHANGED <<page, pageToken, sent>>
    /\ UNCHANGED <<appBuild, storage, user, loadingUser, location, form,
                   orphans, nowMs, lastCheck, attempted, loggedOut,
                   handlerVars>>

\* The follow-up requests end, all well (`ok`) or not.
PageFollowUpEnds(ok) ==
    /\ pagePc = "followUp"
    /\ pageError' = (~ok /\ PageLoads[page].followUpFails = "error")
    /\ pageLoading' = FALSE
    /\ pagePc' = "done"
    /\ UNCHANGED <<page, pageToken, sent>>
    /\ UNCHANGED <<appBuild, storage, user, loadingUser, location, form,
                   orphans, nowMs, lastCheck, attempted, loggedOut,
                   handlerVars>>

\* The credential a session of role r was started from.
PageToken(r) == [enc |-> "b64", payload |-> Payload({"s@edu"}, {}, {r}, {})]

\* The pages under a resolved, AUTHENTICATED session; the slot holds the
\* session's credential, or nothing (the catch block of a Login call that
\* was still in flight has removed it).
InitPages ==
    /\ appBuild \in Builds
    /\ \E r \in Role :
          /\ user = {[email |-> "s@edu", role |-> r, userId |-> {}]}
          /\ storage \in {{}, {PageToken(r)}}
    /\ loadingUser = FALSE
    /\ location \in {RootPath, CoursePath, InvalidCoursePath, AssignmentPath,
                      SubmissionsPath, SubmissionPath}
    /\ form = "idle"
    /\ orphans = NoCalls
    /\ nowMs = 0
    /\ lastCheck = NoCheck
    /\ attempted = {}
    /\ loggedOut = FALSE
    /\ NoPage
    /\ NoHandlers

NextPages ==
    \/ \E p \in PageNames : PageMount(p)
    \/ PagePrimaryFails
    \/ \E more \in BOOLEAN : PagePrimarySucceeds(more)
    \/ \E ok \in BOOLEAN : PageFollowUpEnds(ok)
    \/ handleLogout
    \/ Redirect

SpecPages == InitPages /\ [][NextPages]_vars

-----------------------------------------------------------------------------
(* StudentAssignmentPage once its assignment is loaded: file selection and *)
(* handleSubmitAssignment.  A call of the handler runs on when the page is *)
(* unmounted; its state updates are then lost.                             *)

MaxSubmits == 2   \* handleSubmitAssignment calls that get to send a request

MAX_SIZE == 10 * 1024 * 1024

\* The sizes of the files the user may pick.
FileSizes == {0, MAX_SIZE, MAX_SIZE + 1}

\* AssignmentDetailDto, as far as the page looks at it.
AssignmentDetailDto ==
    [id : {0, 1}, submissionId : Opt({7}), status : Opt({"SUBMITTED", "GRADED"})]

getSubmissionStatus(assignment) ==
    IF assignment.submissionId = {} THEN "NOT_SUBMITTED"
    ELSE IF assignment.status = {"GRADED"} THEN "GRADED" ELSE "SUBMITTED"

\* The page is mounted: the route element is StudentAssignmentPage.
StudentMounted == ~loadingUser /\ Rendered.view = "StudentAssignmentPage"

\* The 'Submit Your Work' section shows its controls.
isSubmissionEditable ==
    /\ StudentMounted
    /\ \E a \in studentPage.assignment : getSubmissionStatus(a) = "NOT_SUBMITTED"

\* The 'Submit Assignment' button is rendered and enabled.
SubmitButton ==
    /\ isSubmissionEditable
    /\ studentPage.selectedFile # {}
    /\ ~studentPage.isSubmitting

\* The calls of the handler that have sent their upload.
Uploads == Len(SelectSeq(sent, LAMBDA r : r.req = "upload"))

\* State updates of a call reach the page only while it is mounted.
StudentUpdate(next) ==
    studentPage' = IF StudentMounted THEN next
                   ELSE [studentPage EXCEPT !.calls = next.calls]

RemoveAt(s, i) == SubSeq(s, 1, i - 1) \o SubSeq(s, i + 1, Len(s))

\* The catch and finally blocks of handleSubmitAssignment for call i.
SubmitCatch(i) ==
    [studentPage EXCEPT !.submitError = "failed", !.successMessage = "none",
                        !.isSubmitting = FALSE, !.calls = RemoveAt(@, i)]

\* The end of the try block after the refetch, and the finally block.
SubmitDone(i, message, assignment) ==
    [studentPage EXCEPT !.assignment = assignment, !.successMessage = message,
                        !.selectedFile = {}, !.isSubmitting = FALSE,
                        !.calls = RemoveAt(@, i)]

\* Mutant of handleFileChange: no test of the size.
handleFileChange_NoLimit(files) ==
    /\ isSubmissionEditable /\ ~studentPage.isSubmitting
    /\ studentPage' = [studentPage EXCEPT !.submitError = "none",
                                           !.successMessage = "none",
                                           !.selectedFile = files]
    /\ UNCHANGED <<appBuild, storage, user, loadingUser, location, form,
                   orphans, nowMs, lastCheck, attempted, loggedOut, pageVars,
                   gradingPage, createPage, assignmentPage>>

\* The file input changes: `files` is event.target.files[0], if any.
handleFileChange(files) ==
    /\ isSubmissionEditable /\ ~studentPage.isSubmitting
    /\ studentPage' =
          IF \E size \in files : size > MAX_SIZE
          THEN [studentPage EXCEPT !.submitError = "tooLarge",
                                   !.successMessage = "none",
                                   !.selectedFile = {}]
          ELSE [studentPage EXCEPT !.submitError = "none",
                                   !.successMessage = "none",
                                   !.selectedFile = files]
    /\ UNCHANGED <<appBuild, storage, user, loadingUser, location, form,
                   orphans, nowMs, lastCheck, attempted, loggedOut, pageVars,
                   gradingPage, createPage, assignmentPage>>

\* A call of handleSubmitAssignment at its first await: the token it read,
\* the file it put into the form data; uploadOk is history, the outcome of
\* its upload.
SubmitCall(token) ==
    [pc |-> "upload", token |-> token, file |-> studentPage.selectedFile,
     uploadOk |-> FALSE]

\* A click on 'Submit Assignment': the handler up to its first await.
handleSubmitAssignment ==
    /\ SubmitButton
    /\ Uploads < MaxSubmits
    /\ IF studentPage.selectedFile = {}
          \/ \A a \in studentPage.assignment : a.id = 0
       THEN /\ studentPage' = [studentPage EXCEPT !.submitError = "select"]
            /\ sent' = sent
       ELSE IF ~TruthyToken(storage)
       THEN /\ studentPage' = [studentPage EXCEPT !.submitError = "auth",
                                                   !.successMessage = "none",
                                                   !.isSubmitting = FALSE]
            /\ sent' = sent
       ELSE /\ studentPage' =
                   [studentPage EXCEPT
                      !.isSubmitting = TRUE, !.submitError = "none",
                      !.successMessage = "none",
                      !.calls = Append(@, SubmitCall(storage))]
            /\ sent' = Append(sent, Request("upload", storage))
    /\ UNCHANGED <<appBuild, storage, user, loadingUser, location, form,
                   orphans, nowMs, lastCheck, attempted, loggedOut>>
    /\ UNCHANGED <<page, pagePc, pageLoading, pageError, pageToken, gradingPage,
                   createPage, assignmentPage>>

\* Mutant of UploadEnds: the response of the upload is not tested.
UploadEnds_IgnoresFailure(i, ok) ==
    /\ i \in DOMAIN studentPage.calls
    /\ studentPage.calls[i].pc = "upload"
    /\ StudentUpdate([studentPage EXCEPT !.calls[i].pc = "submit",
                                         !.calls[i].uploadOk = ok])
    /\ sent' = Append(sent, Request("submission", studentPage.calls[i].token))
    /\ UNCHANGED <<appBuild, storage, user, loadingUser, location, form,
                   orphans, nowMs, lastCheck, attempted, loggedOut>>
    /\ UNCHANGED <<page, pagePc, pageLoading, pageError, pageToken, gradingPage,
                   createPage, assignmentPage>>

\* The upload of call i ends: `ok` says the fetch resolved with an ok status.
UploadEnds(i, ok) ==
    /\ i \in DOMAIN studentPage.calls
    /\ studentPage.calls[i].pc = "upload"
    /\ IF ok
       THEN /\ StudentUpdate([studentPage EXCEPT !.calls[i].pc = "submit",
                                                 !.calls[i].uploadOk = TRUE])
            /\ sent' = Append(sent, Request("submission",
                                             studentPage.calls[i].token))
       ELSE /\ StudentUpdate(SubmitCatch(i))
            /\ sent' = sent
    /\ UNCHANGED <<appBuild, storage, user, loadingUser, location, form,
                   orphans, nowMs, lastCheck, attempted, loggedOut>>
    /\ UNCHANGED <<page, pagePc, pageLoading, pageError, pageToken, gradingPage,
                   createPage, assignmentPage>>

\* The submission request of call i ends: "ok", status "400", or "failed".
\* After "ok" fetchAssignmentDetails reads the slot again and throws into
\* the inner catch block when it is empty.
SubmissionEnds(i, outcome) ==
    /\ i \in DOMAIN studentPage.calls
    /\ studentPage.calls[i].pc = "submit"
    /\ CASE outcome = "400" ->
              /\ StudentUpdate([studentPage EXCEPT
                                  !.submitError = "alreadySent",
                                  !.isSubmitting = FALSE,
                                  !.calls = RemoveAt(@, i)])
              /\ sent' = sent
         [] outcome = "failed" ->
              /\ StudentUpdate(SubmitCatch(i))
              /\ sent' = sent
         [] OTHER ->
              IF TruthyToken(storage)
              THEN /\ StudentUpdate([studentPage EXCEPT
                                       !.calls[i].pc = "refetch"])
                   /\ sent' = Append(sent, Request("refetch", storage))
              ELSE /\ StudentUpdate(SubmitDone(i, "refresh",
                                               studentPage.assignment))
                   /\ sent' = sent
    /\ UNCHANGED <<appBuild, storage, user, loadingUser, location, form,
                   orphans, nowMs, lastCheck, attempted, loggedOut>>
    /\ UNCHANGED <<page, pagePc, pageLoading, pageError, pageToken, gradingPage,
                   createPage, assignmentPage>>

\* The refetch of call i ends: with the assignment as the server has it
\* now, or with a failure ({}).
RefetchEnds(i, updated) ==
    /\ i \in DOMAIN studentPage.calls
    /\ studentPage.calls[i].pc = "refetch"
    /\ IF updated # {}
       THEN StudentUpdate(SubmitDone(i, "submitted", updated))
       ELSE StudentUpdate(SubmitDone(i, "refresh", studentPage.assignment))
    /\ UNCHANGED <<appBuild, storage, user, loadingUser, location, form,
                   orphans, nowMs, lastCheck, attempted, loggedOut, pageVars,
                   gradingPage, createPage, assignmentPage>>

\* The timer of the successMessage effect fires.
SuccessTimeout ==
    /\ StudentMounted
    /\ studentPage.successMessage # "none"
    /\ studentPage' = [studentPage EXCEPT !.successMessage = "none"]
    /\ UNCHANGED <<appBuild, storage, user, loadingUser, location, form,
                   orphans, nowMs, lastCheck, attempted, loggedOut, pageVars,
                   gradingPage, createPage, assignmentPage>>

\* A student's session at the assignment path, the assignment loaded; the
\* slot holds the session's credential or nothing.
InitStudent ==
    /\ appBuild \in Builds
    /\ user = {[email |-> "s@edu", role |-> "STUDENT", userId |-> {}]}
    /\ storage \in {{}, {PageToken("STUDENT")}}
    /\ loadingUser = FALSE
    /\ location = AssignmentPath
    /\ form = "idle"
    /\ orphans = NoCalls
    /\ nowMs = 0
    /\ lastCheck = NoCheck
    /\ attempted = {}
    /\ loggedOut = FALSE
    /\ NoPage
    /\ \E a \in AssignmentDetailDto :
          studentPage = [NoStudentPage EXCEPT !.assignment = {a}]
    /\ gradingPage = Unmounted
    /\ createPage = Unmounted
    /\ assignmentPage = Unmounted

NextStudent ==
    \/ \E files \in Opt(FileSizes) : handleFileChange(files)
    \/ handleSubmitAssignment
    \/ \E i \in 1 .. MaxSubmits, ok \in BOOLEAN : UploadEnds(i, ok)
    \/ \E i \in 1 .. MaxSubmits, outcome \in {"ok", "400", "failed"} :
          SubmissionEnds(i, outcome)
    \/ \E i \in 1 .. MaxSubmits, updated \in Opt(AssignmentDetailDto) :
          RefetchEnds(i, updated)
    \/ SuccessTimeout
    \/ handleLogout
    \/ Redirect

SpecStudent == InitStudent /\ [][NextStudent]_vars

-----------------------------------------------------------------------------
(* SubmissionGradingPage once its submission is loaded: the grade inputs   *)
(* and handleSaveGrade.  A JavaScript number is a set with at most one     *)
(* element: {} is NaN, {n} the number n; a comparison with NaN is false.   *)

MaxSaves == 2   \* handleSaveGrade calls that get to send a request

NaN == {}
Num(n) == {n}
Less(a, b) == \E x \in a, y \in b : x < y

\* What the user may have typed into the Percentage field: e.target.value
\* with the number parseInt(value, 10) makes of it; "" stands for null.
Typed ==
    {[value |-> "", parseInt |-> NaN],
     [value |-> "0", parseInt |-> Num(0)],
     [value |-> "100", parseInt |-> Num(100)],
     [value |-> "150", parseInt |-> Num(150)],
     [value |-> "-5", parseInt |-> Num(0 - 5)],
     [value |-> ".5", parseInt |-> NaN]}

\* Math.min and Math.max: NaN when an argument is NaN.
MathMin(a, b) == IF a = NaN \/ b = NaN THEN NaN ELSE IF Less(b, a) THEN b ELSE a
MathMax(a, b) == IF a = NaN \/ b = NaN THEN NaN ELSE IF Less(a, b) THEN b ELSE a

\* The grades a Submission of the backend may carry: none, or a number.
Submission == [grade : {{}, {Num(80)}, {Num(150)}}]

GradingMounted == ~loadingUser /\ Rendered.view = "SubmissionGradingPage"

\* The form is rendered: not the error view, not 'Submission not found'.
GradingForm == GradingMounted /\ gradingPage.submission # {}

\* grade === null || grade < 0 || grade > 100
invalidGrade(grade) ==
    \/ grade = {}
    \/ \E g \in grade : Less(g, Num(0)) \/ Less(Num(100), g)

GradingUpdate(next) ==
    gradingPage' = IF GradingMounted THEN next
                   ELSE [gradingPage EXCEPT !.calls = next.calls]

\* onChange of the Percentage field.
PercentageChange(typed) ==
    /\ GradingForm /\ ~gradingPage.saving
    /\ gradingPage' =
          [gradingPage EXCEPT
             !.grade = IF typed.value = "" THEN {}
                       ELSE {MathMax(Num(0), MathMin(Num(100), typed.parseInt))}]
    /\ UNCHANGED <<appBuild, storage, user, loadingUser, location, form,
                   orphans, nowMs, lastCheck, attempted, loggedOut, pageVars,
                   studentPage, createPage, assignmentPage>>

\* onChange of the Rating: newValue is null or a number of stars, here in
\* half stars; Math.round(newValue * 20).
RatingChange(halfStars) ==
    /\ GradingForm /\ ~gradingPage.saving
    /\ gradingPage' = [gradingPage EXCEPT
                          !.grade = {Num(10 * h) : h \in halfStars}]
    /\ UNCHANGED <<appBuild, storage, user, loadingUser, location, form,
                   orphans, nowMs, lastCheck, attempted, loggedOut, pageVars,
                   studentPage, createPage, assignmentPage>>

\* The 'Save Grade' button is enabled.
SaveButton ==
    /\ GradingForm
    /\ ~(gradingPage.saving \/ invalidGrade(gradingPage.grade))

\* A click on 'Save Grade': handleSaveGrade up to its await.  The route has
\* matched, so submissionId is set.
handleSaveGrade ==
    /\ SaveButton
    /\ Len(SelectSeq(sent, LAMBDA r : r.req = "grade")) < MaxSaves
    /\ IF invalidGrade(gradingPage.grade)
       THEN /\ gradingPage' = [gradingPage EXCEPT !.error = "invalid"]
            /\ sent' = sent
       ELSE IF ~TruthyToken(storage)
       THEN /\ gradingPage' = [gradingPage EXCEPT !.error = "auth",
                                                   !.saving = FALSE]
            /\ sent' = sent
       ELSE /\ gradingPage' = [gradingPage EXCEPT
                                  !.saving = TRUE, !.error = "none",
                                  !.calls = Append(@, gradingPage.grade)]
            /\ sent' = Append(sent, Request("grade", storage))
    /\ UNCHANGED <<appBuild, storage, user, loadingUser, location, form,
                   orphans, nowMs, lastCheck, attempted, loggedOut>>
    /\ UNCHANGED <<page, pagePc, pageLoading, pageError, pageToken, studentPage,
                   createPage, assignmentPage>>

\* The grade request of call i ends: with the updated Submission, or with
\* a failure ({}).
SaveEnds(i, updated) ==
    /\ i \in DOMAIN gradingPage.calls
    /\ GradingUpdate(
          IF updated # {}
          THEN [gradingPage EXCEPT
                  !.submission = updated,
                  !.grade = UNION {u.grade : u \in updated},
                  !.saving = FALSE, !.calls = RemoveAt(@, i)]
          ELSE [gradingPage EXCEPT !.error = "failed", !.saving = FALSE,
                                   !.calls = RemoveAt(@, i)])
    /\ UNCHANGED <<appBuild, storage, user, loadingUser, location, form,
                   orphans, nowMs, lastCheck, attempted, loggedOut, pageVars,
                   studentPage, createPage, assignmentPage>>

\* A teacher's session at the submission path, the submission loaded and
\* its grade copied into the field.
InitGrading ==
    /\ appBuild \in Builds
    /\ user = {[email |-> "s@edu", role |-> "TEACHER", userId |-> {}]}
    /\ storage \in {{}, {PageToken("TEACHER")}}
    /\ loadingUser = FALSE
    /\ location = SubmissionPath
    /\ form = "idle"
    /\ orphans = NoCalls
    /\ nowMs = 0
    /\ lastCheck = NoCheck
    /\ attempted = {}
    /\ loggedOut = FALSE
    /\ NoPage
    /\ studentPage = Unmounted
    /\ \E s \in Submission :
          gradingPage = [NoGradingPage EXCEPT !.submission = {s},
                                              !.grade = s.grade]
    /\ createPage = Unmounted
    /\ assignmentPage = Unmounted

NextGrading ==
    \/ \E typed \in Typed : PercentageChange(typed)
    \/ \E halfStars \in Opt({0, 5, 10}) : RatingChange(halfStars)
    \/ handleSaveGrade
    \/ \E i \in 1 .. MaxSaves, updated \in Opt(Submission) : SaveEnds(i, updated)
    \/ handleLogout
    \/ Redirect

SpecGrading == InitGrading /\ [][NextGrading]_vars

-----------------------------------------------------------------------------
(* CreateAssignmentPage: the form fields and handleSubmit.                 *)

MaxCreates == 2   \* handleSubmit calls that get past their tests

CreateMounted == ~loadingUser /\ Rendered.view = "CreateAssignmentPage"

\* The fields and the file input are enabled.
CreateFields == CreateMounted /\ ~(createPage.loading \/ createPage.uploading)

CreateUpdate(next) ==
    createPage' = IF CreateMounted THEN next
                  ELSE [createPage EXCEPT !.calls = next.calls,
                                          !.outcome = next.outcome,
                                          !.navigating = next.navigating]

CreateUnchanged ==
    UNCHANGED <<appBuild, storage, user, loadingUser, form, orphans, nowMs,
                lastCheck, attempted, loggedOut, page, pagePc, pageLoading,
                pageError, pageToken, studentPage, gradingPage,
                assignmentPage>>

\* onChange of Title, of the DateTimePicker; handleFileSelect and
\* handleRemoveFile.
CreateEdit(title, dueDate, file) ==
    /\ CreateFields
    /\ createPage' = [createPage EXCEPT
                         !.title = title, !.dueDate = dueDate,
                         !.selectedFile = file,
                         !.submissionError =
                             IF file # createPage.selectedFile THEN "none" ELSE @]
    /\ UNCHANGED <<location, sent>>
    /\ CreateUnchanged

\* The creation request of a call, or the exception of
\* dueDate.toISOString() on an invalid Date, which nothing catches.
CreateStep2(next, i, token) ==
    IF createPage.dueDate = "invalid"
    THEN /\ CreateUpdate([next EXCEPT !.calls = RemoveAt(@, i),
                                      !.outcome = "threw"])
         /\ sent' = sent
    ELSE /\ CreateUpdate([next EXCEPT !.calls[i].pc = "create"])
         /\ sent' = Append(sent, Request("create", token))

\* The form is submitted: handleSubmit up to its first await.
CreateSubmit ==
    /\ CreateFields
    /\ createPage.title /\ createPage.dueDate # "null"
    /\ createPage.submits < MaxCreates
    /\ IF ~createPage.title \/ createPage.dueDate = "null"
       THEN /\ createPage' = [createPage EXCEPT !.submissionError = "required"]
            /\ sent' = sent
       ELSE IF ~TruthyToken(storage)
       THEN /\ createPage' = [createPage EXCEPT
                                 !.loading = FALSE, !.uploading = FALSE,
                                 !.submissionError = "auth", !.success = FALSE]
            /\ sent' = sent
       ELSE LET call == [pc |-> "upload", token |-> storage,
                         file |-> createPage.selectedFile, uploadOk |-> FALSE]
                started == [createPage EXCEPT
                              !.loading = TRUE, !.submissionError = "none",
                              !.success = FALSE, !.submits = @ + 1,
                              !.uploading = createPage.selectedFile,
                              !.calls = Append(@, call)]
            IN IF createPage.selectedFile
               THEN /\ createPage' = started
                    /\ sent' = Append(sent, Request("upload", storage))
               ELSE CreateStep2(started, Len(started.calls), storage)
    /\ UNCHANGED location
    /\ CreateUnchanged

\* Mutant of CreateUploadEnds: the response of the upload is not tested.
CreateUploadEnds_IgnoresFailure(i, ok) ==
    /\ i \in DOMAIN createPage.calls
    /\ createPage.calls[i].pc = "upload"
    /\ CreateStep2([createPage EXCEPT !.uploading = FALSE,
                                      !.calls[i].uploadOk = ok],
                   i, createPage.calls[i].token)
    /\ UNCHANGED location
    /\ CreateUnchanged

\* The upload of call i ends.
CreateUploadEnds(i, ok) ==
    /\ i \in DOMAIN createPage.calls
    /\ createPage.calls[i].pc = "upload"
    /\ IF ok
       THEN CreateStep2([createPage EXCEPT !.uploading = FALSE,
                                           !.calls[i].uploadOk = TRUE],
                        i, createPage.calls[i].token)
       ELSE /\ CreateUpdate([createPage EXCEPT
                                !.submissionError = "upload",
                                !.loading = FALSE, !.uploading = FALSE,
                                !.outcome = "uploadFailed",
                                !.calls = RemoveAt(@, i)])
            /\ sent' = sent
    /\ UNCHANGED location
    /\ CreateUnchanged

\* The creation request of call i ends.
CreateEnds(i, ok) ==
    /\ i \in DOMAIN createPage.calls
    /\ createPage.calls[i].pc = "create"
    /\ CreateUpdate(
          IF ok
          THEN [createPage EXCEPT !.success = TRUE, !.loading = FALSE,
                                  !.navigating = TRUE, !.outcome = "created",
                                  !.calls = RemoveAt(@, i)]
          ELSE [createPage EXCEPT !.submissionError = "create",
                                  !.loading = FALSE, !.outcome = "createFailed",
                                  !.calls = RemoveAt(@, i)])
    /\ UNCHANGED <<location, sent>>
    /\ CreateUnchanged

\* The timer set after a success fires: navigate(`/course/${courseId}`).
CreateNavigate ==
    /\ createPage.navigating
    /\ ~loadingUser
    /\ location' = <<"course", CreatePath[2]>>
    /\ createPage' = [createPage EXCEPT !.navigating = FALSE]
    /\ UNCHANGED sent
    /\ CreateUnchanged

\* A teacher's session at the create-assignment path of part_001.
InitCreate ==
    /\ appBuild = "part_001"
    /\ user = {[email |-> "s@edu", role |-> "TEACHER", userId |-> {}]}
    /\ storage \in {{}, {PageToken("TEACHER")}}
    /\ loadingUser = FALSE
    /\ location = CreatePath
    /\ form = "idle"
    /\ orphans = NoCalls
    /\ nowMs = 0
    /\ lastCheck = NoCheck
    /\ attempted = {}
    /\ loggedOut = FALSE
    /\ NoPage
    /\ studentPage = Unmounted
    /\ gradingPage = Unmounted
    /\ createPage = NoCreatePage
    /\ assignmentPage = Unmounted

NextCreate ==
    \/ \E title, file \in BOOLEAN, dueDate \in {"null", "valid", "invalid"} :
          CreateEdit(title, dueDate, file)
    \/ CreateSubmit
    \/ \E i \in 1 .. MaxCreates, ok \in BOOLEAN : CreateUploadEnds(i, ok)
    \/ \E i \in 1 .. MaxCreates, ok \in BOOLEAN : CreateEnds(i, ok)
    \/ CreateNavigate
    \/ handleLogout
    \/ Redirect

SpecCreate == InitCreate /\ [][NextCreate]_vars

-----------------------------------------------------------------------------
(* An assignment page whose route parameter changes while it is mounted:   *)
(* StudentAssignmentPage (non-teachers, the assignment route) and          *)
(* TeacherAssignmentPage (teachers, the submissions route).  The effect    *)
(* has no cleanup and its requests no abort signal.                        *)

MaxLoads == 3   \* loads the page starts

AssignmentMounted ==
    /\ ~loadingUser
    /\ Rendered.view \in {"StudentAssignmentPage", "TeacherAssignmentPage"}

\* useParams().assignmentId
assignmentId(pathname) == pathname[4]

AssignmentUpdate(next) ==
    assignmentPage' = IF AssignmentMounted THEN next
                      ELSE [assignmentPage EXCEPT !.loads = next.loads]

AssignmentUnchanged ==
    UNCHANGED <<appBuild, storage, user, loadingUser, form, orphans, nowMs,
                lastCheck, attempted, loggedOut, page, pagePc, pageLoading,
                pageError, pageToken, studentPage, gradingPage, createPage>>

\* The effect of the page for the parameter `id`, up to its first await:
\* loadData (setLoading(true), setError(null), the token tested inside the
\* fetch functions) or loadAssignment (the token tested first).
StartLoad(state, id) ==
    IF ~TruthyToken(storage)
    THEN /\ assignmentPage' = [state EXCEPT !.error = TRUE, !.loading = FALSE,
                                            !.started = @ + 1]
         /\ sent' = sent
    ELSE /\ assignmentPage' =
               [state EXCEPT
                  !.loading = IF isTeacher(user) THEN TRUE ELSE @,
                  !.error = IF isTeacher(user) THEN FALSE ELSE @,
                  !.started = @ + 1,
                  !.loads = Append(@, [id |-> id, pc |-> "primary"])]
         /\ sent' = Append(sent, Request("primary", storage))

\* The page is mounted and its effect runs for the first time.
AssignmentMount ==
    /\ AssignmentMounted
    /\ assignmentPage.started = 0
    /\ StartLoad(assignmentPage, assignmentId(location))
    /\ UNCHANGED location
    /\ AssignmentUnchanged

\* The user moves to the same route with another assignmentId: the
\* component stays mounted, the effect runs again.
AssignmentChange(p) ==
    /\ AssignmentMounted
    /\ assignmentPage.started \in 1 .. MaxLoads - 1
    /\ RouteOf[appBuild][p] = RouteOf[appBuild][location]
    /\ assignmentId(p) # assignmentId(location)
    /\ location' = p
    /\ StartLoad(assignmentPage, assignmentId(p))
    /\ AssignmentUnchanged

\* The catch and finally blocks of load i.
AssignmentLoadFails(i) ==
    /\ i \in DOMAIN assignmentPage.loads
    /\ assignmentPage.loads[i].pc = "primary"
    /\ AssignmentUpdate([assignmentPage EXCEPT
                            !.error = TRUE, !.loading = FALSE,
                            !.data = IF isTeacher(user) THEN @ ELSE {},
                            !.loads = RemoveAt(@, i)])
    /\ UNCHANGED <<location, sent>>
    /\ AssignmentUnchanged

\* Mutant of AssignmentLoadArrives: the response of a load whose parameter
\* is no longer the current one is dropped.
AssignmentLoadArrives_DropsStale(i) ==
    /\ i \in DOMAIN assignmentPage.loads
    /\ assignmentPage.loads[i].pc = "primary"
    /\ AssignmentUpdate(
          IF assignmentPage.loads[i].id # assignmentId(location)
          THEN [assignmentPage EXCEPT !.loads = RemoveAt(@, i)]
          ELSE IF isTeacher(user)
          THEN [assignmentPage EXCEPT !.data = {assignmentPage.loads[i].id},
                                      !.loads[i].pc = "users"]
          ELSE [assignmentPage EXCEPT !.data = {assignmentPage.loads[i].id},
                                      !.loading = FALSE,
                                      !.loads = RemoveAt(@, i)])
    /\ UNCHANGED <<location, sent>>
    /\ AssignmentUnchanged

\* The response of load i arrives: setAssignment / setAssignmentDetails
\* with what was fetched for the load's own parameter.  TeacherAssignmentPage
\* goes on to the user details, StudentAssignmentPage to its finally block.
AssignmentLoadArrives(i) ==
    /\ i \in DOMAIN assignmentPage.loads
    /\ assignmentPage.loads[i].pc = "primary"
    /\ AssignmentUpdate(
          IF isTeacher(user)
          THEN [assignmentPage EXCEPT !.data = {assignmentPage.loads[i].id},
                                      !.loads[i].pc = "users"]
          ELSE [assignmentPage EXCEPT !.data = {assignmentPage.loads[i].id},
                                      !.loading = FALSE,
                                      !.loads = RemoveAt(@, i)])
    /\ UNCHANGED <<location, sent>>
    /\ AssignmentUnchanged

\* fetchUserDetailsForSubmissions of load i ends, with or without
\* failures: the finally block of loadData.
AssignmentUsersEnd(i) ==
    /\ i \in DOMAIN assignmentPage.loads
    /\ assignmentPage.loads[i].pc = "users"
    /\ AssignmentUpdate([assignmentPage EXCEPT !.loading = FALSE,
                                               !.loads = RemoveAt(@, i)])
    /\ UNCHANGED <<location, sent>>
    /\ AssignmentUnchanged

\* A session at an assignment page: a student's at the assignment route,
\* a teacher's at the submissions route.
InitAssignment ==
    /\ appBuild \in Builds
    /\ \E r \in {"STUDENT", "TEACHER"} :
          /\ user = {[email |-> "s@edu", role |-> r, userId |-> {}]}
          /\ storage \in {{}, {PageToken(r)}}
          /\ location = IF r = "TEACHER" THEN SubmissionsPath ELSE AssignmentPath
    /\ loadingUser = FALSE
    /\ form = "idle"
    /\ orphans = NoCalls
    /\ nowMs = 0
    /\ lastCheck = NoCheck
    /\ attempted = {}
    /\ loggedOut = FALSE
    /\ NoPage
    /\ studentPage = Unmounted
    /\ gradingPage = Unmounted
    /\ createPage = Unmounted
    /\ assignmentPage = NoAssignmentPage

NextAssignment ==
    \/ AssignmentMount
    \/ \E p \in {AssignmentPath, SubmissionsPath, OtherAssignmentPath,
                  OtherSubmissionsPath} : AssignmentChange(p)
    \/ \E i \in 1 .. MaxLoads : AssignmentLoadFails(i)
    \/ \E i \in 1 .. MaxLoads : AssignmentLoadArrives(i)
    \/ \E i \in 1 .. MaxLoads : AssignmentUsersEnd(i)
    \/ handleLogout
    \/ Redirect

SpecAssignment == InitAssignment /\ [][NextAssignment]_vars

-----------------------------------------------------------------------------
(* Session status as the rest of the app observes it, and the words of the *)
(* specification about a credential.                                       *)

Resolving == loadingUser
Anonymous == ~loadingUser /\ user = {}
Authenticated == ~loadingUser /\ user # {}

\* The views behind ProtectedRoute: every pathname that is not matched by
\* the /login route or the top-level catch-all.
RequiresAuth(build, p) == RouteOf[build][p] \notin {"login", "page-not-found"}

\* The credential in `slot` decodes to a payload.
Decodable(slot) == \E t \in slot : jwtDecode(t) # {}
PayloadOf(slot) == CHOOSE d \in UNION {jwtDecode(t) : t \in slot} : TRUE

\* `exp` is present and strictly less than the time `at` (in milliseconds).
ExpiredAt(payload, at) == \E e \in payload.exp : e * MsPerSecond < at

\* The subject of a payload: `sub`, or `email` when there is no `sub`.  A
\* claim that is the empty string counts as not present.
SubjectOf(payload) == IF payload.sub \notin {{}, {""}} THEN payload.sub
                      ELSE payload.email \ {""}

RecognizedRole(payload) == \E r \in payload.role : r \in Role

\* A validation that succeeds in the sense of the specification.
ValidationSucceeds(slot, at) ==
    /\ Decodable(slot)
    /\ SubjectOf(PayloadOf(slot)) # {}
    /\ RecognizedRole(PayloadOf(slot))
    /\ ~ExpiredAt(PayloadOf(slot), at)

\* The state is one the startup check left behind; Checked is the slot
\* content it read, lastCheck.at the time it read it at.
AfterStartup == lastCheck.by = "startup"
Checked == lastCheck.slot

-----------------------------------------------------------------------------
(* Claims. *)

\* C1: the Identity is non-null if and only if the most recent credential
\* validation (startup check or Login) succeeded - subject present, role one
\* of STUDENT, TEACHER, ADMIN - on a credential not expired at that time.
C1_IdentityIffLastValidationSucceeded ==
    (user # {}) <=>
        (lastCheck.by # "none" /\ ValidationSucceeds(lastCheck.slot, lastCheck.at))

\* C2: on a TEACHER-only view (assignment creation, submissions list,
\* submission grading) an authenticated TEACHER gets the view, and a STUDENT
\* or ADMIN never gets it and is redirected to the student assignment view or
\* the course view of the same course.
TeacherView(p) ==
    CASE p = CreatePath -> "CreateAssignmentPage"
      [] p = SubmissionsPath -> "TeacherAssignmentPage"
      [] p = SubmissionPath -> "SubmissionGradingPage"

\* The TEACHER-only pathnames the build has a route for.
TeacherOnlyPaths(build) ==
    {p \in {CreatePath, SubmissionsPath, SubmissionPath} :
        RouteOf[build][p] # "content-not-found"}

C2_TeacherOnlyViews ==
    (Authenticated /\ location \in TeacherOnlyPaths(appBuild))
        => IF isTeacher(user)
           THEN Rendered.view = TeacherView(location)
           ELSE /\ Rendered.view = "Navigate"
                /\ Rendered.to \in {AssignmentPath, CoursePath}

\* C3: while loadingUser is true the app renders only the loading indicator,
\* whatever the pathname: no redirect and no view.
C3_ResolvingRendersOnlyLoading ==
    Resolving => Rendered.view = "LoadingIndicator"

\* C4: while the session is ANONYMOUS a pathname that requires authentication
\* is redirected to /login and nowhere else, and a login that succeeds lands
\* on '/' whatever pathname had been attempted.
LoginSucceeded ==
    /\ ~loadingUser'
    /\ lastCheck' # lastCheck
    /\ lastCheck'.by = "login"
    /\ storage' # {}

C4_AnonymousRedirectAndLanding ==
    [][/\ (Anonymous /\ RequiresAuth(appBuild, location))
            => /\ Rendered = NavigateTo(LoginPath, FALSE)
               /\ location' \in {location, LoginPath}
       /\ LoginSucceeded
            => /\ location' = RootPath
               /\ Element(appBuild, user', loadingUser', location').view = "Home"
      ]_vars

C4_Witness ==
    /\ Authenticated
    /\ lastCheck.by = "login"
    /\ attempted = {SubmissionPath}
    /\ location = RootPath
    /\ Rendered.view = "Home"

\* C5: while the session is AUTHENTICATED the pathname /login never renders
\* the login view: its element is a redirect to '/'.
C5_AuthenticatedLoginRedirectsToRoot ==
    (Authenticated /\ location = LoginPath)
        => Rendered = NavigateTo(RootPath, FALSE)

C5_Witness ==
    /\ Authenticated
    /\ location = LoginPath
    /\ \E u \in user : u.role = "ADMIN"
    /\ Rendered.to = RootPath

\* C6: after handleLogout the slot is empty and the Identity null, and until
\* a login succeeds every pathname that requires authentication has the
\* redirect to /login as its element (once loadingUser is false, if the page
\* is reloaded meanwhile).
C6_LogoutThenRedirects ==
    loggedOut =>
        /\ storage = {}
        /\ user = {}
        /\ ~loadingUser =>
              \A p \in Paths :
                  RequiresAuth(appBuild, p) =>
                      Element(appBuild, user, loadingUser, p)
                          = NavigateTo(LoginPath, FALSE)

C6_Witness ==
    /\ loggedOut
    /\ Anonymous
    /\ location = CoursePath
    /\ Rendered = NavigateTo(LoginPath, FALSE)

\* C7: a decodable stored credential whose exp is present and strictly less
\* than the current time - every numeric value, 0 included - resolves to a
\* null Identity and an empty slot.
C7_ExpiredResolvesToNull ==
    (/\ AfterStartup
     /\ Decodable(Checked)
     /\ ExpiredAt(PayloadOf(Checked), lastCheck.at))
        => (user = {} /\ storage = {})

\* C8: a decodable stored credential whose role is missing or not one of
\* STUDENT, TEACHER, ADMIN resolves to a null Identity and an empty slot.
C8_UnrecognizedRoleResolvesToNull ==
    (/\ AfterStartup
     /\ Decodable(Checked)
     /\ ~RecognizedRole(PayloadOf(Checked)))
        => (user = {} /\ storage = {})

C8_Witness ==
    /\ ~loadingUser
    /\ lastCheck.by = "startup"
    /\ Decodable(lastCheck.slot)
    /\ PayloadOf(lastCheck.slot).role = {"GUEST"}
    /\ PayloadOf(lastCheck.slot).sub = {"s@edu"}
    /\ PayloadOf(lastCheck.slot).exp = {}
    /\ user = {}
    /\ storage = {}

\* C9: a stored credential string that fails to decode resolves to a null
\* Identity and an empty slot.
C9_UndecodableResolvesToNull ==
    (/\ AfterStartup
     /\ TruthyToken(Checked)
     /\ ~Decodable(Checked))
        => (user = {} /\ storage = {})

C9_Witness ==
    /\ ~loadingUser
    /\ lastCheck.by = "startup"
    /\ \E t \in lastCheck.slot : t.enc = "malformed"
    /\ user = {}
    /\ storage = {}

\* C10: a decodable, non-expired stored credential with a recognized role
\* and a subject resolves to the Identity with that role, with `sub` as its
\* email when `sub` is present and `email` otherwise, and with the payload's
\* userId; the slot keeps the credential.
C10_ValidResolvesToIdentity ==
    (AfterStartup /\ ValidationSucceeds(Checked, lastCheck.at))
        => /\ user = {[email |-> CHOOSE e \in SubjectOf(PayloadOf(Checked)) : TRUE,
                       role |-> CHOOSE r \in PayloadOf(Checked).role : TRUE,
                       userId |-> PayloadOf(Checked).userId]}
           /\ storage = Checked

C10_Witness ==
    /\ ~loadingUser
    /\ lastCheck.by = "startup"
    /\ Decodable(lastCheck.slot)
    /\ PayloadOf(lastCheck.slot).sub = {"s@edu"}
    /\ PayloadOf(lastCheck.slot).email = {"e@edu"}
    /\ PayloadOf(lastCheck.slot).exp = {1}
    /\ lastCheck.at = MsPerSecond
    /\ user = {[email |-> "s@edu", role |-> "TEACHER", userId |-> {7}]}
    /\ storage = lastCheck.slot

\* C11: the startup check never leaves an error or a partly populated
\* Identity: whatever the slot held, it ends with loadingUser false and
\* either a null Identity (and the slot cleared, if it held a credential) or
\* an Identity with a non-empty email and a role of STUDENT, TEACHER, ADMIN.
C11_StartupEndsNullOrComplete ==
    AfterStartup =>
        /\ ~loadingUser
        /\ \/ user = {} /\ (TruthyToken(Checked) => storage = {})
           \/ /\ \E u \in user : u.email # "" /\ u.role \in Role
              /\ storage = Checked

C11_Witness ==
    /\ AfterStartup
    /\ Decodable(Checked)
    /\ PayloadOf(Checked).sub = {""}
    /\ PayloadOf(Checked).email = {}
    /\ PayloadOf(Checked).role = {"TEACHER"}
    /\ PayloadOf(Checked).exp = {}
    /\ user = {}
    /\ storage = {}
    /\ ~loadingUser

\* C12: with no item in the slot the startup check sets a null Identity and
\* leaves the slot without an item, and an app started at '/' comes to show
\* the Login view.
C12_NoCredentialEndsAtLogin ==
    /\ []((AfterStartup /\ Checked = {}) => (user = {} /\ storage = {}))
    /\ (loadingUser /\ storage = {} /\ location = RootPath)
           ~> (Anonymous /\ storage = {} /\ Rendered.view = "Login")

C12_Witness ==
    /\ AfterStartup
    /\ Checked = {}
    /\ attempted = {RootPath}
    /\ location = LoginPath
    /\ Rendered.view = "Login"
    /\ Anonymous
    /\ storage = {}

\* C13: the token check run again at the same time on the slot content the
\* first run left sets the same Identity as the first run did, whatever the
\* slot held before the first run.
C13_ResolutionIdempotent ==
    [][(loadingUser /\ ~loadingUser')
          => resolveIdentity(storage', nowMs').user = user']_vars

C13_Witness ==
    /\ AfterStartup
    /\ nowMs = lastCheck.at
    /\ Decodable(Checked)
    /\ PayloadOf(Checked).sub = {"s@edu"}
    /\ PayloadOf(Checked).role = {"ADMIN"}
    /\ PayloadOf(Checked).exp = {0 - 1}
    /\ storage = {}
    /\ resolveIdentity(Checked, nowMs).user = {}
    /\ resolveIdentity(storage, nowMs).user = user

\* C14: within one page load loadingUser goes from true to false once and
\* never back: the only step that makes it true again is a reload of the
\* page, and the token check runs only while it is true.
C14_LoadingUserFalseStaysFalse ==
    [][/\ (~loadingUser /\ loadingUser') => Reload
       /\ (lastCheck' # lastCheck /\ lastCheck'.by = "startup") => loadingUser
      ]_vars

C14_Witness ==
    /\ ~loadingUser
    /\ loggedOut
    /\ attempted = {CoursePath}
    /\ location = LoginPath
    /\ lastCheck.by = "login"

\* C15: while the session is AUTHENTICATED a step of the clock, past the
\* credential's exp included, changes neither the Identity nor the slot nor
\* the element any pathname gets; the session stops being AUTHENTICATED only
\* by handleLogout or by a reload of the page.
C15_NoExpiryWhileRunning ==
    [][/\ (Authenticated /\ nowMs' # nowMs)
            => /\ user' = user
               /\ storage' = storage
               /\ \A p \in Paths :
                      Element(appBuild', user', loadingUser', p)
                          = Element(appBuild, user, loadingUser, p)
       /\ (Authenticated /\ ~Authenticated') => (handleLogout \/ Reload)
      ]_vars

C15_Witness ==
    /\ Authenticated
    /\ AfterStartup
    /\ storage = Checked
    /\ Decodable(storage)
    /\ PayloadOf(storage).exp = {1}
    /\ lastCheck.at <= MsPerSecond
    /\ ExpiredAt(PayloadOf(storage), nowMs)
    /\ location = CoursePath
    /\ Rendered.view = "StudentCoursePage"

\* C16: when the login endpoint answers with success and a credential (one
\* that is decodable, not expired, with a subject and a recognized role),
\* Login leaves that credential in the slot, sets the Identity to its subject,
\* role and userId, sends no further request and navigates to '/'.
C16_LoginSuccessPopulatesIdentity ==
    [][(/\ lastCheck' # lastCheck
        /\ lastCheck'.by = "login"
        /\ ValidationSucceeds(lastCheck'.slot, lastCheck'.at))
          => /\ storage' = lastCheck'.slot
             /\ user' = {[email |-> CHOOSE e \in
                                       SubjectOf(PayloadOf(lastCheck'.slot)) : TRUE,
                          role |-> CHOOSE r \in
                                       PayloadOf(lastCheck'.slot).role : TRUE,
                          userId |-> PayloadOf(lastCheck'.slot).userId]}
             /\ location' = RootPath
             /\ InFlight' = InFlight - 1
      ]_vars

\* The response body fails one of the checks of Login.handleSubmit.
LoginRefuses(token) ==
    \/ token.enc = "empty"
    \/ atobParse(token) = {}
    \/ \E payload \in atobParse(token) :
           ~(TruthyStr(payload.sub) /\ TruthyStr(payload.role))

\* C17: when a handleSubmit call fails - fetch rejects, the status is not
\* ok, the body is empty, does not decode, or has no sub or no role - the
\* slot is left empty and the Identity as it was; the Login that made the
\* call, if it is still mounted, has a null Identity above it, shows its
\* error and has isLoading false again.
\* (Stated by contraposition: a step that ends a call and does not leave
\* things so is not a failing one.)
C17_LoginFailureCleansUp ==
    [][\A mounted \in BOOLEAN :
          (/\ InFlight' < InFlight
           /\ ~(/\ storage' = {}
                /\ user' = user
                /\ mounted => (user' = {} /\ form' = "failed")))
            => ~(\/ LoginFetchRejects(mounted)
                 \/ LoginRejected(mounted)
                 \/ \E token \in ResponseBodies :
                        LoginRefuses(token) /\ LoginToken(mounted, token))
      ]_vars

C17_Witness ==
    /\ form = "failed"
    /\ location = LoginPath
    /\ Rendered.view = "Login"
    /\ user = {}
    /\ storage = {}
    /\ lastCheck.by = "login"
    /\ \E t \in lastCheck.slot :
           atobParse(t) # {} /\ \A d \in atobParse(t) : d.role = {}

\* C18: no page sends a request while the slot holds no credential - a load
\* that finds the slot empty sends nothing, sets its error and ends loading -
\* and every request sent carries the credential the slot holds.
C18_NoRequestWithoutCredential ==
    /\ \A i \in 1 .. Len(sent) :
          TruthyToken(sent[i].slot) /\ sent[i].bearer = sent[i].slot
    /\ (page # "none" /\ ~TruthyToken(pageToken))
          => (sent = <<>> /\ pageError /\ ~pageLoading)

\* C19: when the primary request of a page's load has failed, the page has
\* loading false and a non-null error, and the request was sent once.
C19_FailedLoadShowsError ==
    pagePc = "failed" =>
        /\ ~pageLoading
        /\ pageError
        /\ Cardinality({i \in 1 .. Len(sent) : sent[i].req = "primary"}) = 1

\* C20: once the session is resolved, a pathname that matches no route but
\* a catch-all renders a 'not found' placeholder - the local one or the
\* global one - for an AUTHENTICATED and for an ANONYMOUS session alike, and
\* is not redirected.
C20_UnmatchedPathEndsNotFound ==
    (/\ ~loadingUser
     /\ RouteOf[appBuild][location] \in {"content-not-found", "page-not-found"})
        => Rendered.view \in {"ContentNotFound", "PageNotFound"}

\* C22: while the Identity is null or loadingUser is true nothing of the
\* authenticated area is rendered - not Layout, not Home (so Home never gets
\* the fallback role 'STUDENT' in place of a missing Identity), no course,
\* assignment, submissions or grading page: only the loading indicator, the
\* Login view or a redirect.
C22_NoProtectedViewWithoutIdentity ==
    (user = {} \/ loadingUser)
        => /\ ~Rendered.layout
           /\ Rendered.view \in {"LoadingIndicator", "Login", "Navigate"}

C22_Witness ==
    /\ loggedOut
    /\ Anonymous
    /\ location = RootPath
    /\ RouteOf[appBuild][location] = "index"
    /\ Rendered = NavigateTo(LoginPath, FALSE)

\* C23: in every reachable state, with several handleSubmit calls of Login
\* in flight and logouts between them, a non-null Identity implies that the
\* slot holds a credential.
C23_IdentityImpliesCredential ==
    user # {} => TruthyToken(storage)

\* The Identity Login.handleSubmit records for the credential in `slot`.
LoginIdentity(slot) ==
    {[email |-> CHOOSE e \in d.sub : TRUE,
      role |-> CHOOSE r \in d.role : TRUE,
      userId |-> d.userId] :
        d \in {x \in UNION {atobParse(t) : t \in slot} :
                  TruthyStr(x.sub) /\ TruthyStr(x.role)}}

\* C24: Login and the startup token check accept the same credentials: a
\* credential Login has just handled got an Identity from Login if and only
\* if the token check, run on it at the same time, gives one, and then both
\* give the same email and role.
C24_LoginAndStartupAgree ==
    lastCheck.by = "login" =>
        LET atLogin == LoginIdentity(lastCheck.slot)
            atStartup == resolveIdentity(lastCheck.slot, lastCheck.at).user
        IN /\ (atLogin # {}) <=> (atStartup # {})
           /\ \A a \in atLogin : \A b \in atStartup :
                  a.email = b.email /\ a.role = b.role

\* The chain of <Navigate> elements that starts at pathname p reaches an
\* element that is not a <Navigate> within n redirects.
RECURSIVE SettlesWithin(_, _, _, _, _)
SettlesWithin(build, u, loading, p, n) ==
    LET e == Element(build, u, loading, p)
    IN IF e.view # "Navigate" THEN TRUE
       ELSE n > 0 /\ SettlesWithin(build, u, loading, e.to, n - 1)

\* C25: for every session status, role and pathname the chain of redirects
\* is finite: followed from the current pathname it reaches a rendered view
\* before it could visit a pathname twice - the teacher redirect from the
\* assignment view to `submissions` and the non-teacher redirects away from
\* the teacher-only views included.
C25_RedirectsSettle ==
    \A p \in Paths :
        SettlesWithin(appBuild, user, loadingUser, p, Cardinality(Paths))

C25_Witness ==
    /\ appBuild = "part_001"
    /\ Authenticated
    /\ \E x \in user : x.role = "ADMIN"
    /\ location = SubmissionPath
    /\ Rendered = NavigateTo(LiteralAssignmentPath, TRUE)
    /\ Element(appBuild, user, loadingUser, LiteralAssignmentPath).view
           = "StudentAssignmentPage"

\* The loads whose follow-up requests are the secondary fetches: per-course
\* counts (Home), educational modules (course pages), student details
\* (submissions and grading pages).
SecondaryFetchLoads ==
    {"Home", "StudentCoursePage", "TeacherCoursePage_part_002",
     "TeacherAssignmentPage", "SubmissionGradingPage"}

\* C30: the initial load of every page ends with loading false - when its
\* requests have settled, well or not, and on every early exit (route
\* parameter missing or not a number, no credential in the slot) - and the
\* end of the secondary fetches, failed or not, leaves the error of the page
\* as it was and loading false.
C30_InitialLoadEnds ==
    [][/\ pagePc' \in {"exit", "done", "failed"} => ~pageLoading'
       /\ (pagePc = "followUp" /\ pagePc' # "followUp"
              /\ page \in SecondaryFetchLoads)
             => (pageError' = pageError /\ ~pageLoading')]_vars

C30_Witness ==
    /\ page = "SubmissionGradingPage"
    /\ pagePc = "done"
    /\ Len(sent) = 2 /\ sent[2].req = "followUp"
    /\ ~pageLoading /\ ~pageError

C27_ControlsOnlyWhileNotSubmitted ==
    [][/\ (\/ studentPage'.selectedFile \notin {{}, studentPage.selectedFile}
           \/ Len(studentPage'.calls) > Len(studentPage.calls))
             => \E a \in studentPage.assignment : a.submissionId = {}
       /\ (/\ studentPage.calls = <<>>
           /\ \E a \in studentPage.assignment : a.submissionId # {})
             => sent' = sent
       /\ \A size \in studentPage'.selectedFile : size <= MAX_SIZE]_vars

\* A submission was sent and the refetch brought an assignment that carries
\* a submissionId; a file of exactly 10 MB had been accepted.
C27_Witness ==
    /\ StudentMounted
    /\ Len(sent) = 3 /\ sent[3].req = "refetch"
    /\ studentPage.successMessage = "submitted"
    /\ \E a \in studentPage.assignment : a.submissionId # {}
    /\ studentPage.calls = <<>>

\* The grade is a number from 0 to 100.
GradeInRange(grade) ==
    \E g \in grade : \E n \in g : 0 <= n /\ n <= 100

\* C28: SubmissionGradingPage.handleSaveGrade sends the grade request only
\* when a credential is stored and the grade is non-null and from 0 to 100;
\* a click that sends nothing sets an error and leaves the submission as it
\* was; a failed save leaves the submission as it was and sets saving back
\* to false.
C28_SaveGradeGuarded ==
    [][/\ sent' # sent
             => TruthyToken(storage) /\ GradeInRange(gradingPage.grade)
       /\ (gradingPage'.error # gradingPage.error)
             => /\ gradingPage'.error # "none" \/ sent' # sent
                /\ sent' = sent
                      => /\ gradingPage'.submission = gradingPage.submission
                         /\ ~gradingPage'.saving]_vars

\* C29: in CreateAssignmentPage.handleSubmit a call that has sent the
\* creation request found a title, a due date and a stored credential when
\* it started and, if it found a file selected, has had its upload answered
\* with success; when an upload fails the call ends without a creation
\* request, an error is shown, and loading and uploading are false.
C29_CreateAfterUploadOnly ==
    [][/\ \A i \in DOMAIN createPage'.calls :
             LET call == createPage'.calls[i]
             IN /\ TruthyToken(call.token)
                /\ call.pc = "create" => (call.file => call.uploadOk)
       /\ Len(sent') > Len(sent)
             => /\ createPage.title \/ createPage.calls # <<>>
                /\ createPage.dueDate # "null" \/ createPage.calls # <<>>
                /\ TruthyToken(sent'[Len(sent')].bearer)
       /\ (Len(createPage'.calls) < Len(createPage.calls)
              /\ createPage'.outcome = "uploadFailed")
             => /\ sent' = sent
                /\ CreateMounted
                      => /\ createPage'.submissionError = "upload"
                         /\ ~createPage'.loading
                         /\ ~createPage'.uploading]_vars

\* An upload has failed: the error is shown, nothing is in flight, no
\* creation request was sent.
C29_Witness ==
    /\ CreateMounted
    /\ createPage.outcome = "uploadFailed"
    /\ createPage.submissionError = "upload"
    /\ createPage.calls = <<>>
    /\ ~createPage.loading /\ ~createPage.uploading
    /\ Len(sent) = 1 /\ sent[1].req = "upload"

\* C21: a load of an assignment page is not cancelled when the route
\* parameter changes: when its response arrives on the mounted page it is
\* put into the page state, whatever the current parameter is and whatever
\* other loads are in flight - so of two overlapping loads the one that
\* arrives last determines the data shown.
C21_LastResponseWins ==
    [][\A i \in DOMAIN assignmentPage.loads :
          (/\ AssignmentMounted
           /\ assignmentPage.loads[i].pc = "primary"
           /\ sent' = sent /\ location' = location /\ user' = user
           /\ \/ Len(assignmentPage'.loads) < Len(assignmentPage.loads)
              \/ assignmentPage'.loads[i].pc # "primary"
           /\ assignmentPage'.loads \in {RemoveAt(assignmentPage.loads, i),
                  [assignmentPage.loads EXCEPT ![i].pc = "users"]}
           /\ ~assignmentPage'.error)
             => assignmentPage'.data = {assignmentPage.loads[i].id}]_vars

\* Two loads overlapped, the first one issued arrived last: the page shows
\* the data of the assignment the user has left.
C21_Witness ==
    /\ AssignmentMounted
    /\ assignmentPage.started = 2
    /\ assignmentPage.loads = <<>>
    /\ ~assignmentPage.error
    /\ assignmentPage.data # {assignmentId(location)}
    /\ assignmentPage.data # {}

====
